---------------------------- MODULE Spec2Model ----------------------------
(***************************************************************************)
(* Model of traffic_ops/traffic_ops_golang/routing/routing.go: the route   *)
(* table builder (CreateRouteMap, CompileRoutes), the dispatch engine      *)
(* (Handler) and the request-id allocator (nextReqIDGetter).               *)
(*                                                                         *)
(* Strings are sequences of one-character strings, so that slicing,        *)
(* searching and pattern matching are computed as the code computes them.  *)
(* API versions (float64 in the code) are held in tenths: 12 is 1.2.       *)
(***************************************************************************)
EXTENDS Integers, Sequences, FiniteSets, TLC

(***************************************************************************)
(* Go string primitives (0-based indices, as in the code).                 *)
(***************************************************************************)

\* strings.Index(s, c) for a one-character needle: first index, or -1.
Index(s, c) ==
    IF \E i \in 1..Len(s) : s[i] = c
      THEN (CHOOSE i \in 1..Len(s) : s[i] = c /\ \A j \in 1..(i-1) : s[j] # c) - 1
      ELSE -1

\* s[lo:hi]
Slice(s, lo, hi) == SubSeq(s, lo + 1, hi)

\* s[lo:]
SliceFrom(s, lo) == SubSeq(s, lo + 1, Len(s))

\* strings.Split(s, "/")
RECURSIVE Split(_)
Split(s) ==
    LET i == Index(s, "/")
    IN  IF i < 0 THEN <<s>>
        ELSE <<Slice(s, 0, i)>> \o Split(SliceFrom(s, i + 1))

\* strings.ToLower on the letters the model's paths use
LowerChar(c) ==
    CASE c = "A" -> "a"
      [] c = "P" -> "p"
      [] c = "I" -> "i"
      [] OTHER   -> c

ToLower(s) == [i \in 1..Len(s) |-> LowerChar(s[i])]

Digits == <<"0", "1", "2", "3", "4", "5", "6", "7", "8", "9">>

DigitChars == {Digits[i] : i \in 1..10}

DigitVal(c) == (CHOOSE i \in 1..10 : Digits[i] = c) - 1

\* decimal rendering of a natural number
RECURSIVE Itoa(_)
Itoa(n) == IF n < 10 THEN <<Digits[n + 1]>> ELSE Itoa(n \div 10) \o <<Digits[(n % 10) + 1]>>

\* strconv.FormatFloat(version, 'f', -1, 64): the shortest decimal that
\* round-trips, so a whole number has no fractional part.
FormatFloat(v) ==
    IF v % 10 = 0 THEN Itoa(v \div 10)
    ELSE Itoa(v \div 10) \o <<".">> \o Itoa(v % 10)

\* value of a digit string in tenths, as the integer part of a decimal
RECURSIVE IntPart(_)
IntPart(ds) ==
    IF Len(ds) = 0 THEN 0
    ELSE 10 * IntPart(SubSeq(ds, 1, Len(ds) - 1)) + DigitVal(ds[Len(ds)])

\* strconv.ParseFloat(s, 64) on decimal text [digits][.digits]; every other
\* text over the model's alphabet is a syntax error.  The value is in
\* tenths; exact is FALSE when digits beyond the first decimal are non-zero
\* (such a value equals no version the model declares).
ParseFloat(s) ==
    LET dot  == Index(s, ".")
        ip   == IF dot < 0 THEN s ELSE Slice(s, 0, dot)
        fp   == IF dot < 0 THEN <<>> ELSE SliceFrom(s, dot + 1)
        good == /\ \A i \in 1..Len(ip) : ip[i] \in DigitChars
                /\ \A i \in 1..Len(fp) : fp[i] \in DigitChars
                /\ Len(ip) + Len(fp) > 0
    IN  IF ~good THEN [err |-> TRUE, val |-> 0, exact |-> FALSE]
        ELSE [err   |-> FALSE,
              val   |-> 10 * IntPart(ip) + (IF Len(fp) > 0 THEN DigitVal(fp[1]) ELSE 0),
              exact |-> \A i \in 2..Len(fp) : fp[i] = "0"]

(***************************************************************************)
(* regexp: the subset of RE2 syntax the route patterns use.                *)
(***************************************************************************)

\* the text CompileRoutes substitutes for a placeholder: ([^/]+)
CaptureGroup == <<"(", "[", "^", "/", "]", "+", ")">>

HasPrefixAt(s, i, p) ==
    /\ i + Len(p) - 1 <= Len(s)
    /\ \A k \in 1..Len(p) : s[i + k - 1] = p[k]

\* regexp.MustCompile: the parsed pattern, a sequence of tokens.  A '{' or
\* '}' that opens no repetition count is a literal, as in RE2.
RECURSIVE ParseRegex(_, _)
ParseRegex(s, i) ==
    IF i > Len(s) THEN <<>>
    ELSE IF HasPrefixAt(s, i, CaptureGroup)
      THEN <<[t |-> "cap", c |-> ""]>> \o ParseRegex(s, i + Len(CaptureGroup))
    ELSE IF s[i] = "^" THEN <<[t |-> "bol", c |-> ""]>> \o ParseRegex(s, i + 1)
    ELSE IF s[i] = "$" THEN <<[t |-> "eol", c |-> ""]>> \o ParseRegex(s, i + 1)
    ELSE IF s[i] = "." THEN <<[t |-> "any", c |-> ""]>> \o ParseRegex(s, i + 1)
    ELSE <<[t |-> "lit", c |-> s[i]]>> \o ParseRegex(s, i + 1)

MustCompile(s) == ParseRegex(s, 1)

NoMatch == [ok |-> FALSE, caps |-> <<>>]

\* length of the longest run of non-'/' characters of s starting at si
RECURSIVE SegRun(_, _)
SegRun(s, si) ==
    IF si > Len(s) \/ s[si] = "/" THEN 0 ELSE 1 + SegRun(s, si + 1)

\* leftmost-first match of tokens re[ti..] against s from position si; the
\* greedy [^/]+ takes the longest run that lets the rest match.
RECURSIVE MatchHere(_, _, _, _)
MatchHere(re, ti, s, si) ==
    IF ti > Len(re) THEN [ok |-> TRUE, caps |-> <<>>]
    ELSE LET tok == re[ti]
         IN  CASE tok.t = "bol" ->
                    IF si = 1 THEN MatchHere(re, ti + 1, s, si) ELSE NoMatch
               [] tok.t = "eol" ->
                    IF si = Len(s) + 1 THEN MatchHere(re, ti + 1, s, si) ELSE NoMatch
               [] tok.t = "lit" ->
                    IF si <= Len(s) /\ s[si] = tok.c
                      THEN MatchHere(re, ti + 1, s, si + 1) ELSE NoMatch
               [] tok.t = "any" ->
                    IF si <= Len(s) THEN MatchHere(re, ti + 1, s, si + 1) ELSE NoMatch
               [] OTHER ->
                    LET good == {n \in 1..SegRun(s, si) :
                                    MatchHere(re, ti + 1, s, si + n).ok}
                    IN  IF good = {} THEN NoMatch
                        ELSE LET n == CHOOSE m \in good : \A k \in good : k <= m
                             IN  [ok   |-> TRUE,
                                  caps |-> <<SubSeq(s, si, si + n - 1)>>
                                           \o MatchHere(re, ti + 1, s, si + n).caps]

\* Regexp.FindStringSubmatch(s): the leftmost match; caps are the
\* submatches match[1:], and ok is len(match) # 0.
FindStringSubmatch(re, s) ==
    LET starts == {p \in 1..(Len(s) + 1) : MatchHere(re, 1, s, p).ok}
    IN  IF starts = {} THEN NoMatch
        ELSE MatchHere(re, 1, s, CHOOSE p \in starts : \A q \in starts : p <= q)

(***************************************************************************)
(* Handlers and middleware.                                                *)
(*                                                                         *)
(* An http.HandlerFunc is modelled by what one invocation of it does: the  *)
(* sequence of calls it makes.  A Middleware m turns handler h into the    *)
(* handler that runs m's pre-logic, then h, then m's post-logic.           *)
(***************************************************************************)

Ev(k, m, p) == [k |-> k, m |-> m, p |-> p]

\* a handler function that is not a wrapper: one invocation runs its body
HandlerFunc(name) == <<Ev("run", name, 0)>>

\* a Middleware value: its name and the parameter it was built with
Mw(name, p) == [m |-> name, p |-> p]

\* middlewares[i](h)
Apply(mw, h) == <<Ev("pre", mw.m, mw.p)>> \o h \o <<Ev("post", mw.m, mw.p)>>

\* wrapAccessLog(secret, h)
wrapAccessLog(h) == Apply(Mw("wrapAccessLog", 0), h)

DisabledRouteHandler == HandlerFunc("DisabledRouteHandler")

NotImplementedHandler == HandlerFunc("NotImplementedHandler")

\* the catch-all handler of Routes(d)
catchall == HandlerFunc("catchall")

\* handlerToFunc(catchall): calling the func serves the handler
handlerToFunc(h) == h

\* use with the loop running forwards (i from 0 up): the last middleware
\* ends up outermost
RECURSIVE useForwardFrom(_, _, _)
useForwardFrom(h, middlewares, i) ==
    IF i >= Len(middlewares) THEN h
    ELSE useForwardFrom(Apply(middlewares[i + 1], h), middlewares, i + 1)

useForward(h, middlewares) == useForwardFrom(h, middlewares, 0)

\* the loop of use, from i down to 0 (i is 0-based as in the code)
RECURSIVE useFrom(_, _, _)
useFrom(h, middlewares, i) ==
    IF i < 0 THEN h
    ELSE useFrom(Apply(middlewares[i + 1], h), middlewares, i - 1)

use(h, middlewares) == useFrom(h, middlewares, Len(middlewares) - 1)

\* program constant: the default request timeout in seconds
DefaultTimeoutSeconds == 60

getDefaultMiddleware(requestTimeout) ==
    << Mw("wrapAccessLog", 0), Mw("timeOutWrapper", requestTimeout),
       Mw("wrapHeaders", 0), Mw("wrapPanicRecover", 0) >>

\* authBase.GetWrapper(privLevel)
GetWrapper(privLevel) == Mw("authWrapper", privLevel)

\* A []Middleware that may be nil: [isNil, ms].
NilMiddlewares == [isNil |-> TRUE, ms |-> <<>>]

Middlewares(ms) == [isNil |-> FALSE, ms |-> ms]

\* the chain with the authorization wrapper appended only for a non-zero
\* privilege level
getRouteMiddlewarePrivOnly(middlewares, authenticated, privLevel, requestTimeout) ==
    LET chain == IF middlewares.isNil THEN getDefaultMiddleware(requestTimeout)
                 ELSE middlewares.ms
    IN  IF authenticated /\ privLevel > 0 THEN Append(chain, GetWrapper(privLevel)) ELSE chain

getRouteMiddleware(middlewares, authenticated, privLevel, requestTimeout) ==
    LET chain == IF middlewares.isNil THEN getDefaultMiddleware(requestTimeout)
                 ELSE middlewares.ms
    IN  IF authenticated THEN Append(chain, GetWrapper(privLevel)) ELSE chain

(***************************************************************************)
(* Route table construction.                                               *)
(***************************************************************************)

RoutePrefix == <<"^", "a", "p", "i">>

\* the set of a []float64 or []int
Range(s) == {s[i] : i \in 1..Len(s)}

\* sort.Float64s on the keys of a map
RECURSIVE SortSet(_)
SortSet(S) ==
    IF S = {} THEN <<>>
    ELSE LET lo == CHOOSE x \in S : \A y \in S : x <= y
         IN  <<lo>> \o SortSet(S \ {lo})

\* the versions of all declarations but the last
getSortedRouteVersionsButLast(rs) == SortSet({rs[i].Version : i \in 1..(Len(rs) - 1)})

getSortedRouteVersions(rs) == SortSet({rs[i].Version : i \in 1..Len(rs)})

\* sort.SearchFloat64s(versions, x): the first 0-based index whose element
\* is >= x, or len(versions)
SearchFloat64s(versions, x) ==
    Cardinality({i \in 1..Len(versions) : versions[i] < x})

\* GetRouteIDMap(ids): the ids as a set
GetRouteIDMap(ids) == Range(ids)

\* float64(int(version) + 1): int() truncates toward zero
nextMajorVer(version) ==
    IF version >= 0 THEN 10 * ((version \div 10) + 1)
    ELSE 10 * (1 - ((0 - version) \div 10))

\* the new entry put in front of the method's list instead of behind it
PrependTo(m, method, ph) ==
    IF method \in DOMAIN m THEN [m EXCEPT ![method] = <<ph>> \o @]
    ELSE [k \in DOMAIN m \cup {method} |-> IF k = method THEN <<ph>> ELSE m[k]]

\* m[method] = append(m[method], ph) on a map without the key yet
AppendTo(m, method, ph) ==
    IF method \in DOMAIN m THEN [m EXCEPT ![method] = Append(@, ph)]
    ELSE [k \in DOMAIN m \cup {method} |-> IF k = method THEN <<ph>> ELSE m[k]]

EmptyMap == [k \in {} |-> <<>>]

\* A PathHandler.  Route, Raw and Version are bookkeeping the code does not
\* keep: the 1-based index of the Route (or RawRoute) declaration and the
\* version the entry was produced for (0 where not applicable).
PathHandler(path, handler, route, raw, version) ==
    [Path |-> path, Handler |-> handler, Route |-> route, Raw |-> raw, Version |-> version]

\* the classification with the disabled list consulted before the bypass list
routeHandlerDisabledFirst(r, isPerlRoute, isDisabledRoute, perlHandler, middlewares) ==
    IF isDisabledRoute THEN wrapAccessLog(DisabledRouteHandler)
    ELSE IF isPerlRoute THEN perlHandler
    ELSE use(r.Handler, middlewares)

\* the classification without the disabled branch
routeHandlerDisabledOwn(r, isPerlRoute, isDisabledRoute, perlHandler, middlewares) ==
    IF isPerlRoute THEN perlHandler
    ELSE use(r.Handler, middlewares)

\* the handler a Route's entries carry (the if / else if / else of the loop body)
routeHandler(r, isPerlRoute, isDisabledRoute, perlHandler, middlewares) ==
    IF isPerlRoute THEN perlHandler
    ELSE IF isDisabledRoute THEN wrapAccessLog(DisabledRouteHandler)
    ELSE use(r.Handler, middlewares)

\* vstr rendered with one decimal always ("%.1f")
vstrFixed(version) == Itoa(version \div 10) \o <<".">> \o Itoa(version % 10)

vstr(version) == FormatFloat(version)

\* the dispatch path of Route r at a version
routePath(r, version) == RoutePrefix \o <<"/">> \o vstr(version) \o <<"/">> \o r.Path

\* the loop bound with the next major version computed from the version
\* being visited instead of the route's own
stopAtVisitedMajor(r, version) == version >= nextMajorVer(version)

\* the break condition of the inner loop
stopAt(r, version) == version >= nextMajorVer(r.Version)

\* the inner loop, over versions[i:] (i is 1-based here)
RECURSIVE versionLoop(_, _, _, _, _, _)
versionLoop(m, r, ri, versions, i, env) ==
    IF i > Len(versions) THEN m
    ELSE IF stopAt(r, versions[i]) THEN m
    ELSE LET version     == versions[i]
             middlewares == getRouteMiddleware(r.Middlewares, r.Authenticated,
                                               r.RequiredPrivLevel, env.requestTimeout)
             handler     == routeHandler(r, r.ID \in env.perlRoutes,
                                         r.ID \in env.disabledRoutes,
                                         env.perlHandler, middlewares)
             ph          == PathHandler(routePath(r, version), handler, ri, 0, version)
         IN  versionLoop(AppendTo(m, r.Method, ph), r, ri, versions, i + 1, env)

\* the loop over rs, from declaration ri on
RECURSIVE routeLoop(_, _, _, _, _)
routeLoop(m, rs, ri, versions, env) ==
    IF ri > Len(rs) THEN m
    ELSE routeLoop(versionLoop(m, rs[ri], ri, versions,
                               SearchFloat64s(versions, rs[ri].Version) + 1, env),
                   rs, ri + 1, versions, env)

\* the loop over rawRoutes
RECURSIVE rawLoop(_, _, _, _)
rawLoop(m, rawRoutes, i, env) ==
    IF i > Len(rawRoutes) THEN m
    ELSE LET r           == rawRoutes[i]
             middlewares == getRouteMiddleware(r.Middlewares, r.Authenticated,
                                               r.RequiredPrivLevel, env.requestTimeout)
             ph          == PathHandler(r.Path, use(r.Handler, middlewares), 0, i, 0)
         IN  rawLoop(AppendTo(m, r.Method, ph), rawRoutes, i + 1, env)

\* CreateRouteMap: [m, versionSet]
CreateRouteMap(rs, rawRoutes, perlRouteIDs, disabledRouteIDs, perlHandler, reqTimeOutSeconds) ==
    LET versions == getSortedRouteVersions(rs)
        env == [requestTimeout |-> IF reqTimeOutSeconds > 0 THEN reqTimeOutSeconds
                                   ELSE DefaultTimeoutSeconds,
                perlRoutes     |-> GetRouteIDMap(perlRouteIDs),
                disabledRoutes |-> GetRouteIDMap(disabledRouteIDs),
                perlHandler    |-> perlHandler]
        m1 == routeLoop(EmptyMap, rs, 1, versions, env)
    IN  [m          |-> rawLoop(m1, rawRoutes, 1, env),
         versionSet |-> Range(versions)]

(***************************************************************************)
(* CompileRoutes.                                                          *)
(***************************************************************************)

\* the placeholder loop with the condition open >= 0
RECURSIVE compilePathFromZero(_, _)
compilePathFromZero(route, params) ==
    LET open == Index(route, "{")
    IN  IF ~(open >= 0) THEN [panic |-> FALSE, route |-> route, params |-> params]
        ELSE LET close == Index(route, "}")
             IN  IF close < 0 \/ close < open + 1
                   THEN [panic |-> TRUE, route |-> route, params |-> params]
                 ELSE compilePathFromZero(
                        Slice(route, 0, open) \o CaptureGroup \o SliceFrom(route, close + 1),
                        Append(params, Slice(route, open + 1, close)))

\* the placeholder loop of CompileRoutes on one path: the rewritten pattern
\* text and the parameter names, or panic ("malformed route", or the slice
\* bounds fault of route[open+1:close] when the first '}' precedes the '{')
RECURSIVE compilePath(_, _)
compilePath(route, params) ==
    LET open == Index(route, "{")
    IN  IF ~(open > 0) THEN [panic |-> FALSE, route |-> route, params |-> params]
        ELSE LET close == Index(route, "}")
             IN  IF close < 0 \/ close < open + 1
                   THEN [panic |-> TRUE, route |-> route, params |-> params]
                 ELSE compilePath(
                        Slice(route, 0, open) \o CaptureGroup \o SliceFrom(route, close + 1),
                        Append(params, Slice(route, open + 1, close)))

\* one CompiledRoute; Path, Route, Raw and Version are bookkeeping carried
\* over from the PathHandler
compileOne(pathHandler) ==
    LET c == compilePath(pathHandler.Path, <<>>)
    IN  [Handler |-> pathHandler.Handler,
         Regex   |-> MustCompile(c.route),
         Params  |-> c.params,
         Path    |-> pathHandler.Path,
         Route   |-> pathHandler.Route,
         Raw     |-> pathHandler.Raw,
         Version |-> pathHandler.Version]

routePanics(routes) ==
    \E method \in DOMAIN routes : \E i \in 1..Len(routes[method]) :
        compilePath(routes[method][i].Path, <<>>).panic

\* CompileRoutes(routes), for routes on which it does not panic
CompileRoutes(routes) ==
    [method \in DOMAIN routes |->
        [i \in 1..Len(routes[method]) |-> compileOne(routes[method][i])]]

(***************************************************************************)
(* Handler: the dispatch of one request.                                   *)
(***************************************************************************)

\* the loop over mRoutes taking the last matching entry instead of the first
RECURSIVE lastMatch(_, _, _)
lastMatch(mRoutes, requested, i) ==
    IF i > Len(mRoutes) THEN 0
    ELSE LET later == lastMatch(mRoutes, requested, i + 1)
         IN  IF later # 0 THEN later
             ELSE IF FindStringSubmatch(mRoutes[i].Regex, requested).ok THEN i ELSE 0

\* the loop over mRoutes from entry i on: the 1-based index of the first
\* entry whose Regex matches, or 0 when the loop falls through
RECURSIVE firstMatch(_, _, _)
firstMatch(mRoutes, requested, i) ==
    IF i > Len(mRoutes) THEN 0
    ELSE IF FindStringSubmatch(mRoutes[i].Regex, requested).ok THEN i
    ELSE firstMatch(mRoutes, requested, i + 1)

\* params[v] = x on a map[string]string
SetParam(params, v, x) ==
    [k \in DOMAIN params \cup {v} |-> IF k = v THEN x ELSE params[k]]

\* the loop "for i, v := range compiledRoute.Params { params[v] = match[i+1] }"
RECURSIVE bindParams(_, _, _, _)
bindParams(params, names, caps, i) ==
    IF i > Len(names) THEN params
    ELSE bindParams(SetParam(params, names[i], caps[i]), names, caps, i + 1)

\* the classification with a version that does not parse taken as known
IsRequestAPIAndUnknownVersionErrKnown(path, versions) ==
    LET pathParts == Split(path)
    IN  IF Len(pathParts) < 2 THEN FALSE
        ELSE IF ToLower(pathParts[2]) # <<"a", "p", "i">> THEN FALSE
        ELSE IF Len(pathParts) < 3 THEN TRUE
        ELSE LET version == ParseFloat(pathParts[3])
             IN  IF version.err THEN FALSE
                 ELSE IF version.exact /\ version.val \in versions THEN FALSE
                 ELSE TRUE

\* IsRequestAPIAndUnknownVersion(req, versions), on req.URL.Path
IsRequestAPIAndUnknownVersion(path, versions) ==
    LET pathParts == Split(path)
    IN  IF Len(pathParts) < 2 THEN FALSE
        ELSE IF ToLower(pathParts[2]) # <<"a", "p", "i">> THEN FALSE
        ELSE IF Len(pathParts) < 3 THEN TRUE
        ELSE LET version == ParseFloat(pathParts[3])
             IN  IF version.err THEN TRUE
                 ELSE IF version.exact /\ version.val \in versions THEN FALSE
                 ELSE TRUE

\* the plugin hook's verdict disregarded
pluginStopsNever(handled) == FALSE

\* "if handled := plugins.OnRequest(onReqData); handled { return }"
pluginStops(handled) == handled

\* Handler without the return after the matched handler: the call goes on to
\* the unknown-version test and the catch-all
HandlerBodyFallThrough(routes, versions, r, handled, reqID) ==
    LET start     == <<Ev("logStart", "", reqID), Ev("OnRequest", "", reqID)>>
        finish    == <<Ev("logEnd", "", reqID)>>
        requested == SliceFrom(r.Path, 1)
        base      == [events |-> start \o finish, ret |-> "plugin", matched |-> 0,
                      tried |-> 0, handled |-> handled, pluginParams |-> EmptyMap, params |-> EmptyMap, ctxReqID |-> reqID,
                      handlerReqID |-> 0]
    IN  IF pluginStops(handled) THEN base
        ELSE IF r.Method \notin DOMAIN routes
          THEN [base EXCEPT !.events = start \o catchall \o finish, !.ret = "noRoutes"]
        ELSE LET mRoutes == routes[r.Method]
                 i       == firstMatch(mRoutes, requested, 1)
                 ran     == IF i # 0 THEN mRoutes[i].Handler ELSE <<>>
                 params  == IF i # 0
                              THEN bindParams(EmptyMap, mRoutes[i].Params,
                                       FindStringSubmatch(mRoutes[i].Regex, requested).caps, 1)
                              ELSE EmptyMap
             IN  IF IsRequestAPIAndUnknownVersion(r.Path, versions)
                   THEN [base EXCEPT
                           !.events  = start \o ran \o wrapAccessLog(NotImplementedHandler) \o finish,
                           !.tried   = Len(mRoutes),
                           !.matched = i,
                           !.params  = params,
                           !.handlerReqID = IF i # 0 THEN reqID ELSE 0,
                           !.ret     = "unknownVersion"]
                 ELSE [base EXCEPT !.events  = start \o ran \o catchall \o finish,
                                   !.tried   = Len(mRoutes),
                                   !.matched = i,
                                   !.params  = params,
                                   !.handlerReqID = IF i # 0 THEN reqID ELSE 0,
                                   !.ret     = "catchall"]

\* Handler without the test of "ok" after the lookup of the method: a method
\* with no entry is treated as one with an empty list of routes
HandlerBodyNoMethodTest(routes, versions, r, handled, reqID) ==
    LET start     == <<Ev("logStart", "", reqID), Ev("OnRequest", "", reqID)>>
        finish    == <<Ev("logEnd", "", reqID)>>
        requested == SliceFrom(r.Path, 1)
        base      == [events |-> start \o finish, ret |-> "plugin", matched |-> 0,
                      tried |-> 0, handled |-> handled, pluginParams |-> EmptyMap, params |-> EmptyMap, ctxReqID |-> reqID,
                      handlerReqID |-> 0]
        mRoutes   == IF r.Method \in DOMAIN routes THEN routes[r.Method] ELSE <<>>
        i         == firstMatch(mRoutes, requested, 1)
    IN  IF pluginStops(handled) THEN base
        ELSE IF i # 0
          THEN [base EXCEPT
                  !.events  = start \o mRoutes[i].Handler \o finish,
                  !.ret     = "matched",
                  !.matched = i,
                  !.tried   = i,
                  !.handlerReqID = reqID,
                  !.params  = bindParams(EmptyMap, mRoutes[i].Params,
                                  FindStringSubmatch(mRoutes[i].Regex, requested).caps, 1)]
        ELSE IF IsRequestAPIAndUnknownVersion(r.Path, versions)
          THEN [base EXCEPT
                  !.events = start \o wrapAccessLog(NotImplementedHandler) \o finish,
                  !.tried  = Len(mRoutes),
                  !.ret    = "unknownVersion"]
        ELSE [base EXCEPT !.events = start \o catchall \o finish,
                          !.tried  = Len(mRoutes),
                          !.ret    = "catchall"]

\* Handler without the deferred completion line
logHandledNever(reqID) == <<>>

\* the deferred func of Handler: the completion line, run at every return
logHandled(reqID) == <<Ev("logEnd", "", reqID)>>

\* What one call of Handler does after getReqID returned reqID, for request
\* r = [Method, Path] and the plugin hook's verdict handled:
\*   events       the calls made, in order (log lines, hook, handler)
\*   ret          the return taken
\*   matched      the index of the compiled route invoked (0: none)
\*   tried        how many compiled routes the path was matched against
\*   handled      the plugin hook's verdict
\*   pluginParams the parameter map in the hook's request context
\*   params       the parameter map in the matched handler's request context
\*   ctxReqID     the request id placed in ctx, the context of the hook's request
\*   handlerReqID the request id in the context of the request the invoked
\*                handler is given (0: that context carries none; the
\*                fall-back handlers are given the original request r)
HandlerBody(routes, versions, r, handled, reqID) ==
    LET start     == <<Ev("logStart", "", reqID), Ev("OnRequest", "", reqID)>>
        finish    == logHandled(reqID)
        requested == SliceFrom(r.Path, 1)
        base      == [events |-> start \o finish, ret |-> "plugin", matched |-> 0,
                      tried |-> 0, handled |-> handled, pluginParams |-> EmptyMap, params |-> EmptyMap, ctxReqID |-> reqID,
                      handlerReqID |-> 0]
    IN  IF pluginStops(handled) THEN base
        ELSE IF r.Method \notin DOMAIN routes
          THEN [base EXCEPT !.events = start \o catchall \o finish, !.ret = "noRoutes"]
        ELSE LET mRoutes == routes[r.Method]
                 i       == firstMatch(mRoutes, requested, 1)
             IN  IF i # 0
                   THEN [base EXCEPT
                           !.events  = start \o mRoutes[i].Handler \o finish,
                           !.ret     = "matched",
                           !.matched = i,
                           !.tried   = i,
                           !.handlerReqID = reqID,
                           !.params  = bindParams(EmptyMap, mRoutes[i].Params,
                                           FindStringSubmatch(mRoutes[i].Regex, requested).caps, 1)]
                 ELSE IF IsRequestAPIAndUnknownVersion(r.Path, versions)
                   THEN [base EXCEPT
                           !.events = start \o wrapAccessLog(NotImplementedHandler) \o finish,
                           !.tried  = Len(mRoutes),
                           !.ret    = "unknownVersion"]
                 ELSE [base EXCEPT !.events = start \o catchall \o finish,
                                   !.tried  = Len(mRoutes),
                                   !.ret    = "catchall"]

(***************************************************************************)
(* Bounds and input domains.                                               *)
(***************************************************************************)

\* the longest list of Route declarations
MaxRoutes == 2

\* the number of requests served in one behaviour
MaxRequests == 2

\* the server's goroutines that may run Handler at the same time
Workers == {"w1", "w2"}

Methods == {"GET", "POST"}

\* path templates: a/{i}, a/b, a/{i}/{j}, a/{i}/{i}, {i}/a, and the
\* malformed a/{i and {i
T_AI == <<"a", "/", "{", "i", "}">>

T_AB == <<"a", "/", "b">>

T_AIJ == <<"a", "/", "{", "i", "}", "/", "{", "j", "}">>

T_AII == <<"a", "/", "{", "i", "}", "/", "{", "i", "}">>

T_IA == <<"{", "i", "}", "/", "a">>

T_AIopen == <<"a", "/", "{", "i">>

T_Iopen == <<"{", "i">>

Route(version, method, path, handler, privLevel, authenticated, middlewares, id) ==
    [Version |-> version, Method |-> method, Path |-> path,
     Handler |-> HandlerFunc(handler), RequiredPrivLevel |-> privLevel,
     Authenticated |-> authenticated, Middlewares |-> middlewares, ID |-> id,
     CanBypassToPerl |-> FALSE]

RawRoute(method, path, handler, privLevel, authenticated, middlewares) ==
    [Method |-> method, Path |-> path, Handler |-> HandlerFunc(handler),
     RequiredPrivLevel |-> privLevel, Authenticated |-> authenticated,
     Middlewares |-> middlewares]

\* the Route declarations the lists are drawn from
RouteA == Route(12, "GET", T_AI, "hA", 10, TRUE, NilMiddlewares, 1)

RouteB == Route(13, "GET", T_AB, "hB", 0, FALSE, Middlewares(<<Mw("mwX", 0), Mw("mwY", 0)>>), 2)

RouteC == Route(20, "GET", T_AIJ, "hC", 0, TRUE, Middlewares(<<>>), 2)

RouteD == Route(10, "POST", T_AB, "hA", 0, FALSE, NilMiddlewares, 1)

RouteE == Route(12, "GET", T_AB, "hB", 20, TRUE, Middlewares(<<Mw("mwX", 0)>>), 2)

RouteF == Route(10, "GET", T_AII, "hC", 0, FALSE, NilMiddlewares, 1)

RouteG == Route(10, "GET", T_AIopen, "hA", 0, FALSE, NilMiddlewares, 1)

RouteCatalogue == {RouteA, RouteB, RouteC, RouteD, RouteE, RouteF, RouteG}

\* the lists of distinct declarations of length at most n
RECURSIVE RouteLists(_)
RouteLists(n) ==
    IF n = 0 THEN {<<>>}
    ELSE RouteLists(n - 1) \cup
         {Append(l, r) : l \in {x \in RouteLists(n - 1) : Len(x) = n - 1},
                         r \in RouteCatalogue}

DistinctLists(n) ==
    {l \in RouteLists(n) : \A i, j \in 1..Len(l) : i # j => l[i] # l[j]}

RawRouteLists ==
    { <<>>,
      <<RawRoute("GET", T_AI, "hR", 0, FALSE, NilMiddlewares)>>,
      <<RawRoute("GET", T_IA, "hR", 0, FALSE, Middlewares(<<>>))>>,
      <<RawRoute("GET", T_Iopen, "hR", 0, FALSE, NilMiddlewares)>>,
      <<RawRoute("POST", T_AIopen, "hR", 0, FALSE, NilMiddlewares)>> }

\* the ServerData fields CreateRouteMap is given
ServerDatas ==
    { [PerlRoutes |-> <<>>,  DisabledRoutes |-> <<>>,     RequestTimeout |-> 0],
      [PerlRoutes |-> <<1>>, DisabledRoutes |-> <<>>,     RequestTimeout |-> 30],
      [PerlRoutes |-> <<2>>, DisabledRoutes |-> <<1, 2>>, RequestTimeout |-> 0] }

\* the paths of the requests (r.URL.Path)
RequestPaths ==
    { <<"/", "a", "p", "i", "/", "1", ".", "2", "/", "a", "/", "7">>,
      <<"/", "a", "p", "i", "/", "1", ".", "3", "/", "a", "/", "b">>,
      <<"/", "a", "p", "i", "/", "2", "/", "a", "/", "7", "/", "8">>,
      <<"/", "a", "p", "i", "/", "2", ".", "0", "/", "a", "/", "7">>,
      <<"/", "a", "p", "i", "/", "9", ".", "9", "/", "a", "/", "7">>,
      <<"/", "a", "p", "i", "/", "1", "v", "2", "/", "a", "/", "7">>,
      <<"/", "a", "p", "i">>,
      <<"/", "a", "p", "i", "a">>,
      <<"/", "A", "P", "I", "/", "1", ".", "2", "/", "a", "/", "7">>,
      <<"/", "a", "/", "7">>,
      <<"/", "{", "i", "}", "/", "a">>,
      <<"/", "a", "p", "i", "/", "1", ".", "2", "/", "a", "/", "b">>,
      <<"/">>,
      <<"/", "a", "p", "i", "/", "1", "/", "a", "/", "7", "/", "8">>,
      <<"/", "a", "p", "i", "/", "1", ".", "3", "/", "a", "/", "b", "c">> }

Requests == [Method : Methods, Path : RequestPaths]

NoRequest == [Method |-> "", Path |-> <<>>]

NoResult ==
    [events |-> <<>>, ret |-> "", matched |-> 0, tried |-> 0, handled |-> FALSE,
     pluginParams |-> EmptyMap, params |-> EmptyMap, ctxReqID |-> 0, handlerReqID |-> 0]

(***************************************************************************)
(* The server: RegisterRoutes at startup, then Handler once per request,   *)
(* on concurrently running goroutines.                                     *)
(***************************************************************************)

VARIABLES
    routeSlice,      \* Routes(d): the Route declarations
    rawRoutes,       \* Routes(d): the RawRoute declarations
    d,               \* ServerData: PerlRoutes, DisabledRoutes, RequestTimeout
    phase,           \* "startup", "serving", or "panicked" (CompileRoutes panicked)
    compiledRoutes,  \* the table Handler closes over
    versions,        \* the version set Handler closes over
    id,              \* the counter of nextReqIDGetter
    issued,          \* history: the values getReqID returned, in call order
    workers,         \* the goroutines serving requests
    pc,              \* per goroutine: "idle", "handling" (getReqID returned), "done"
    reqID,           \* per goroutine: Handler's reqID
    req,             \* per goroutine: the request being handled
    res              \* per goroutine: what the call of Handler did

vars == <<routeSlice, rawRoutes, d, phase, compiledRoutes, versions, id, issued,
          workers, pc, reqID, req, res>>

tables == <<routeSlice, rawRoutes, d, phase, compiledRoutes, versions, workers>>

InitCommon ==
    /\ phase = "startup"
    /\ compiledRoutes = EmptyMap
    /\ versions = {}
    /\ id = 0
    /\ issued = <<>>
    /\ pc = [w \in Workers |-> "idle"]
    /\ reqID = [w \in Workers |-> 0]
    /\ req = [w \in Workers |-> NoRequest]
    /\ res = [w \in Workers |-> NoResult]

\* any declarations, requests served one at a time
Init ==
    /\ routeSlice \in DistinctLists(MaxRoutes)
    /\ rawRoutes \in RawRouteLists
    /\ d \in ServerDatas
    /\ workers = {"w1"}
    /\ InitCommon

\* two declaration lists, requests served concurrently
InitConcurrent ==
    /\ routeSlice \in {<<RouteA, RouteE>>, <<RouteD>>}
    /\ rawRoutes = <<>>
    /\ d \in ServerDatas
    /\ workers = Workers
    /\ InitCommon

\* RegisterRoutes(d): builds the table and the allocator, or panics in
\* CompileRoutes
RegisterRoutes ==
    /\ phase = "startup"
    /\ LET built == CreateRouteMap(routeSlice, rawRoutes, d.PerlRoutes, d.DisabledRoutes,
                                   handlerToFunc(catchall), d.RequestTimeout)
       IN  IF routePanics(built.m)
             THEN /\ phase' = "panicked"
                  /\ UNCHANGED <<compiledRoutes, versions>>
             ELSE /\ phase' = "serving"
                  /\ compiledRoutes' = CompileRoutes(built.m)
                  /\ versions' = built.versionSet
    /\ id' = 0
    /\ UNCHANGED <<routeSlice, rawRoutes, d, issued, workers, pc, reqID, req, res>>

\* atomic.AddUint64(&id, 1), below the counter's range
AddUint64(addr, delta) == addr + delta

\* the allocator as a load followed by a store: two steps of the goroutine
getReqIDRacy(w) ==
    \/ /\ pc[w] = "idle"
       /\ Len(issued) < MaxRequests
       /\ reqID' = [reqID EXCEPT ![w] = id]
       /\ pc' = [pc EXCEPT ![w] = "loaded"]
       /\ UNCHANGED <<id, issued>>
    \/ /\ pc[w] = "loaded"
       /\ id' = reqID[w] + 1
       /\ reqID' = [reqID EXCEPT ![w] = reqID[w] + 1]
       /\ issued' = Append(issued, reqID[w] + 1)
       /\ pc' = [pc EXCEPT ![w] = "handling"]

\* "reqID := getReqID()": one atomic step
getReqID(w) ==
    /\ pc[w] = "idle"
    /\ Len(issued) < MaxRequests
    /\ id' = AddUint64(id, 1)
    /\ reqID' = [reqID EXCEPT ![w] = AddUint64(id, 1)]
    /\ issued' = Append(issued, AddUint64(id, 1))
    /\ pc' = [pc EXCEPT ![w] = "handling"]

\* Handler is entered with a request: the allocation of its request id
HandlerEnter(w) ==
    /\ phase = "serving"
    /\ getReqID(w)
    /\ UNCHANGED <<tables, req, res>>

\* Handler moving the entry it dispatched to to the back of its method's
\* list in the shared table
HandlerRunReorders(w) ==
    /\ phase = "serving"
    /\ pc[w] = "handling"
    /\ \E r \in Requests, handled \in BOOLEAN :
          LET b == HandlerBody(compiledRoutes, versions, r, handled, reqID[w])
          IN  /\ req' = [req EXCEPT ![w] = r]
              /\ res' = [res EXCEPT ![w] = b]
              /\ compiledRoutes' =
                    IF b.matched = 0 THEN compiledRoutes
                    ELSE [compiledRoutes EXCEPT ![r.Method] =
                             SubSeq(@, 1, b.matched - 1) \o SubSeq(@, b.matched + 1, Len(@))
                                 \o <<@[b.matched]>>]
    /\ pc' = [pc EXCEPT ![w] = "done"]
    /\ UNCHANGED <<routeSlice, rawRoutes, d, phase, versions, workers, id, issued, reqID>>

\* the rest of Handler, for the request r and the plugin hook's verdict
HandlerRun(w) ==
    /\ phase = "serving"
    /\ pc[w] = "handling"
    /\ \E r \in Requests, handled \in BOOLEAN :
          /\ req' = [req EXCEPT ![w] = r]
          /\ res' = [res EXCEPT ![w] =
                        HandlerBody(compiledRoutes, versions, r, handled, reqID[w])]
    /\ pc' = [pc EXCEPT ![w] = "done"]
    /\ UNCHANGED <<tables, id, issued, reqID>>

\* Handler has returned; the goroutine takes the next request
HandlerReturn(w) ==
    /\ pc[w] = "done"
    /\ pc' = [pc EXCEPT ![w] = "idle"]
    /\ reqID' = [reqID EXCEPT ![w] = 0]
    /\ req' = [req EXCEPT ![w] = NoRequest]
    /\ res' = [res EXCEPT ![w] = NoResult]
    /\ UNCHANGED <<tables, id, issued>>

Next ==
    \/ RegisterRoutes
    \/ \E w \in workers : HandlerEnter(w)
    \/ \E w \in workers : HandlerRun(w)
    \/ \E w \in workers : HandlerReturn(w)

Spec == Init /\ [][Next]_vars

SpecConcurrent == InitConcurrent /\ [][Next]_vars

(***************************************************************************)
(* Properties.                                                             *)
(***************************************************************************)

Serving == phase = "serving"

\* the state RegisterRoutes leaves: the table is built and no request has
\* been taken yet
Registered == Serving /\ issued = <<>>

\* the entries of the compiled table, as [method, k] pairs
Entries == {mk \in Methods \X (1..(MaxRoutes * MaxRoutes + 1)) :
               /\ mk[1] \in DOMAIN compiledRoutes
               /\ mk[2] <= Len(compiledRoutes[mk[1]])}

Entry(mk) == compiledRoutes[mk[1]][mk[2]]

DeclaredVersions == {routeSlice[i].Version : i \in 1..Len(routeSlice)}

\* Route declaration i has an entry at version v, under its method and at
\* the path of that version
Mounted(i, v) ==
    \E mk \in Entries :
        /\ mk[1] = routeSlice[i].Method
        /\ Entry(mk).Route = i
        /\ Entry(mk).Version = v
        /\ Entry(mk).Path = routePath(routeSlice[i], v)

\* C1: a Route is mounted at a declared version v exactly when
\* r.Version <= v < floor(r.Version) + 1 (versions are in tenths).
C1_VersionPropagation ==
    Registered =>
        \A i \in 1..Len(routeSlice) : \A v \in DeclaredVersions :
            Mounted(i, v) <=>
                /\ routeSlice[i].Version <= v
                /\ v < 10 * ((routeSlice[i].Version \div 10) + 1)

\* a 1.2 route mounted at a later declared 1.3
C1_Witness ==
    /\ Registered
    /\ \E i \in 1..Len(routeSlice) :
          /\ routeSlice[i].Version = 12
          /\ 13 \in DeclaredVersions
          /\ Mounted(i, 13)
          /\ Mounted(i, 12)

\* the text of a declared version as it is written in a URL
VersionText(v) ==
    CASE v = 10 -> <<"1">>
      [] v = 12 -> <<"1", ".", "2">>
      [] v = 13 -> <<"1", ".", "3">>
      [] v = 20 -> <<"2">>
      [] v = 30 -> <<"3">>

\* C10: the path of a Route's entry at version v is ^api/<v>/<template>,
\* a whole-number version written without a fractional part.
C10_MajorVersionTruncation ==
    Registered =>
        \A mk \in Entries :
            Entry(mk).Route # 0 =>
                Entry(mk).Path =
                    <<"^", "a", "p", "i", "/">> \o VersionText(Entry(mk).Version)
                        \o <<"/">> \o routeSlice[Entry(mk).Route].Path

\* a route mounted at version 2.0, whose path starts with ^api/2/
C10_Witness ==
    /\ Registered
    /\ \E mk \in Entries :
          /\ Entry(mk).Route # 0
          /\ Entry(mk).Version = 20
          /\ SubSeq(Entry(mk).Path, 1, 7) = <<"^", "a", "p", "i", "/", "2", "/">>

PerlIDs == Range(d.PerlRoutes)

DisabledIDs == Range(d.DisabledRoutes)

\* the legacy handler RegisterRoutes supplies: the catch-all, unwrapped
LegacyHandler == <<Ev("run", "catchall", 0)>>

\* C3: every entry of a Route whose id is in the legacy-bypass list carries
\* the legacy handler, unwrapped, also when the id is in the disabled list.
C3_BypassPrecedence ==
    Registered =>
        \A i \in 1..Len(routeSlice) :
            routeSlice[i].ID \in PerlIDs =>
                /\ \A v \in DeclaredVersions :
                      (routeSlice[i].Version <= v /\ v \div 10 = routeSlice[i].Version \div 10)
                          => Mounted(i, v)
                /\ \A mk \in Entries :
                      Entry(mk).Route = i =>
                          /\ Entry(mk).Handler = LegacyHandler
                          /\ \A k \in 1..Len(Entry(mk).Handler) :
                                Entry(mk).Handler[k] # Ev("run", routeSlice[i].Handler[1].m, 0)

\* a mounted Route whose id is in both lists
C3_Witness ==
    /\ Registered
    /\ \E mk \in Entries :
          /\ Entry(mk).Route # 0
          /\ routeSlice[Entry(mk).Route].ID \in PerlIDs \cap DisabledIDs
          /\ Entry(mk).Handler = LegacyHandler

Done(w) == w \in workers /\ pc[w] = "done"

\* the path the patterns are matched against
Requested(w) == SubSeq(req[w].Path, 2, Len(req[w].Path))

\* the compiled routes of the request's method
MRoutes(w) ==
    IF req[w].Method \in DOMAIN compiledRoutes THEN compiledRoutes[req[w].Method] ELSE <<>>

\* the entries of the request's method whose pattern matches the path
Matching(w) ==
    LET mRoutes   == MRoutes(w)
        requested == Requested(w)
    IN  {k \in 1..Len(mRoutes) : FindStringSubmatch(mRoutes[k].Regex, requested).ok}

Least(S) == CHOOSE k \in S : \A j \in S : k <= j

FirstMatching(w) == Least(Matching(w))

\* the calls of a Handler invocation that invokes h: start line, plugin
\* hook, h, completion line
Framed(w, h) ==
    <<Ev("logStart", "", reqID[w]), Ev("OnRequest", "", reqID[w])>> \o h
        \o <<Ev("logEnd", "", reqID[w])>>

\* the declarations with i and j exchanged
Swapped(i, j) == [routeSlice EXCEPT ![i] = routeSlice[j], ![j] = routeSlice[i]]

\* the table built from the declarations with i and j exchanged
SwappedTable(i, j) ==
    CompileRoutes(CreateRouteMap(Swapped(i, j), rawRoutes, d.PerlRoutes, d.DisabledRoutes,
                                 handlerToFunc(catchall), d.RequestTimeout).m)

\* C2: a request the plugin hook does not handle runs the handler of the
\* first matching entry of its method, and only it; with the declarations of
\* the first matching Route and of another matching Route exchanged, the
\* handler of the other Route runs.
C2_FirstMatchWins ==
    \A w \in Workers :
        (Done(w) /\ ~res[w].handled) =>
            LET matching == Matching(w)
                mRoutes  == MRoutes(w)
            IN  matching # {} =>
                  LET first == Least(matching)
                  IN  /\ res[w].ret = "matched"
                      /\ res[w].matched = first
                      /\ res[w].events = Framed(w, mRoutes[first].Handler)
                      /\ \A k \in matching :
                            LET i == mRoutes[first].Route
                                j == mRoutes[k].Route
                            IN  (i # 0 /\ j # 0 /\ j # i) =>
                                  LET table2 == SwappedTable(i, j)
                                      r2     == HandlerBody(table2, versions, req[w],
                                                            FALSE, reqID[w])
                                  IN  /\ r2.ret = "matched"
                                      /\ table2[req[w].Method][r2.matched].Route = i
                                      /\ r2.events = Framed(w, mRoutes[k].Handler)

\* two entries of different Routes with different handlers match the path,
\* and the first one's handler ran
C2_Witness ==
    \E w \in Workers :
        /\ Done(w) /\ ~res[w].handled
        /\ \E k \in Matching(w) :
              /\ k # FirstMatching(w)
              /\ MRoutes(w)[k].Route # 0
              /\ MRoutes(w)[FirstMatching(w)].Route # 0
              /\ MRoutes(w)[k].Route # MRoutes(w)[FirstMatching(w)].Route
              /\ MRoutes(w)[k].Handler # MRoutes(w)[FirstMatching(w)].Handler
              /\ res[w].events = Framed(w, MRoutes(w)[FirstMatching(w)].Handler)

\* the events of a call that invoke a handler or a middleware
HandlerEvents(w) ==
    {k \in 1..Len(res[w].events) : res[w].events[k].k \in {"run", "pre", "post"}}

\* C7: when the plugin hook reports the request handled, Handler matches the
\* path against no compiled route and invokes no route handler, no
\* unknown-version response and no catch-all.
C7_PluginShortCircuit ==
    \A w \in Workers :
        (Done(w) /\ res[w].handled) =>
            /\ res[w].ret = "plugin"
            /\ res[w].tried = 0
            /\ res[w].matched = 0
            /\ HandlerEvents(w) = {}
            /\ res[w].events = Framed(w, <<>>)

\* the hook handled a request whose path a compiled route matches
C7_Witness ==
    \E w \in Workers :
        /\ Done(w) /\ res[w].handled
        /\ Matching(w) # {}
        /\ res[w].ret = "plugin"

\* the names of the handler functions the Route declarations carry
RouteHandlerNames == {"hA", "hB", "hC"}

\* the disabled-route response: DisabledRouteHandler under access logging only
DisabledResponse ==
    <<Ev("pre", "wrapAccessLog", 0), Ev("run", "DisabledRouteHandler", 0),
      Ev("post", "wrapAccessLog", 0)>>

\* the Route declaration of a call's matched entry is disabled
MatchedDisabled(w) ==
    /\ res[w].ret = "matched"
    /\ MRoutes(w)[res[w].matched].Route # 0
    /\ routeSlice[MRoutes(w)[res[w].matched].Route].ID \in DisabledIDs

\* no request runs a Route's handler through an entry of a disabled Route
C4_OwnHandlerNeverRuns ==
    \A w \in Workers :
        Done(w) =>
            \A k \in 1..Len(res[w].events) :
                (res[w].events[k].k = "run" /\ res[w].events[k].m \in RouteHandlerNames)
                    => (res[w].ret = "matched" /\ ~MatchedDisabled(w))

\* the Route declaration of the first matching entry of a call the plugin
\* hook did not handle: its index, or 0 when there is none
FirstMatchRoute(w) ==
    IF Done(w) /\ ~res[w].handled
      THEN LET matching == Matching(w)
           IN  IF matching = {} THEN 0 ELSE MRoutes(w)[Least(matching)].Route
      ELSE 0

\* the first matching entry of a call belongs to a disabled Route
FirstMatchDisabled(w) ==
    LET i == FirstMatchRoute(w)
    IN  i # 0 /\ routeSlice[i].ID \in DisabledIDs

\* C4 as stated: a disabled Route's handler never runs, and a request whose
\* (first) matching entry belongs to a disabled Route receives the disabled
\* response under access logging only.
C4_AsStated ==
    /\ C4_OwnHandlerNeverRuns
    /\ \A w \in Workers :
          FirstMatchDisabled(w) => res[w].events = Framed(w, DisabledResponse)

\* C4, amended: the same, except that a Route whose id is also in the
\* legacy-bypass list dispatches to the unwrapped legacy handler.
C4_DisabledPrecedence ==
    /\ C4_OwnHandlerNeverRuns
    /\ \A w \in Workers :
          LET i == FirstMatchRoute(w)
          IN  (i # 0 /\ routeSlice[i].ID \in DisabledIDs) =>
                IF routeSlice[i].ID \in PerlIDs
                  THEN res[w].events = Framed(w, LegacyHandler)
                  ELSE res[w].events = Framed(w, DisabledResponse)

\* a request matched a disabled Route that is not bypassed
C4_Witness ==
    \E w \in Workers :
        LET i == FirstMatchRoute(w)
        IN  /\ i # 0
            /\ routeSlice[i].ID \in DisabledIDs \ PerlIDs
            /\ res[w].events = Framed(w, DisabledResponse)

\* what each request path is: under the API prefix (first segment "api",
\* letter case ignored) or not, and its version segment in tenths (-1:
\* absent, -2: not a number)
PathClasses ==
    { [path |-> <<"/", "a", "p", "i", "/", "1", ".", "2", "/", "a", "/", "7">>, api |-> TRUE, ver |-> 12],
      [path |-> <<"/", "a", "p", "i", "/", "1", ".", "3", "/", "a", "/", "b">>, api |-> TRUE, ver |-> 13],
      [path |-> <<"/", "a", "p", "i", "/", "2", "/", "a", "/", "7", "/", "8">>, api |-> TRUE, ver |-> 20],
      [path |-> <<"/", "a", "p", "i", "/", "2", ".", "0", "/", "a", "/", "7">>, api |-> TRUE, ver |-> 20],
      [path |-> <<"/", "a", "p", "i", "/", "9", ".", "9", "/", "a", "/", "7">>, api |-> TRUE, ver |-> 99],
      [path |-> <<"/", "a", "p", "i", "/", "1", "v", "2", "/", "a", "/", "7">>, api |-> TRUE, ver |-> -2],
      [path |-> <<"/", "a", "p", "i">>, api |-> TRUE, ver |-> -1],
      [path |-> <<"/", "a", "p", "i", "a">>, api |-> FALSE, ver |-> -1],
      [path |-> <<"/", "A", "P", "I", "/", "1", ".", "2", "/", "a", "/", "7">>, api |-> TRUE, ver |-> 12],
      [path |-> <<"/", "a", "/", "7">>, api |-> FALSE, ver |-> -1],
      [path |-> <<"/", "{", "i", "}", "/", "a">>, api |-> FALSE, ver |-> -1],
      [path |-> <<"/", "a", "p", "i", "/", "1", ".", "2", "/", "a", "/", "b">>, api |-> TRUE, ver |-> 12],
      [path |-> <<"/">>, api |-> FALSE, ver |-> -1],
      [path |-> <<"/", "a", "p", "i", "/", "1", "/", "a", "/", "7", "/", "8">>, api |-> TRUE, ver |-> 10],
      [path |-> <<"/", "a", "p", "i", "/", "1", ".", "3", "/", "a", "/", "b", "c">>, api |-> TRUE, ver |-> 13] }

PathClass(path) == CHOOSE c \in PathClasses : c.path = path

\* the path is an API path whose version is absent, not a number or undeclared
UnknownAPIVersion(w) ==
    /\ PathClass(req[w].Path).api
    /\ PathClass(req[w].Path).ver \notin versions

\* the unknown-version response: NotImplementedHandler under access logging
NotImplementedResponse ==
    <<Ev("pre", "wrapAccessLog", 0), Ev("run", "NotImplementedHandler", 0),
      Ev("post", "wrapAccessLog", 0)>>

CatchallResponse == <<Ev("run", "catchall", 0)>>

\* a call the plugin hook did not handle and no compiled route matched
Unmatched(w) == Done(w) /\ ~res[w].handled /\ Matching(w) = {}

\* C5 as stated: an unmatched request to an API path of unknown version
\* receives the unknown-version response, every other unmatched request the
\* catch-all.
C5_AsStated ==
    \A w \in Workers :
        Unmatched(w) =>
            IF UnknownAPIVersion(w)
              THEN res[w].events = Framed(w, NotImplementedResponse)
              ELSE res[w].events = Framed(w, CatchallResponse)

\* C5, amended: the same for requests whose method has at least one entry
\* in the route table.
C5_UnknownVersion ==
    \A w \in Workers :
        (Unmatched(w) /\ req[w].Method \in DOMAIN compiledRoutes) =>
            IF UnknownAPIVersion(w)
              THEN /\ res[w].ret = "unknownVersion"
                   /\ res[w].events = Framed(w, NotImplementedResponse)
              ELSE /\ res[w].ret = "catchall"
                   /\ res[w].events = Framed(w, CatchallResponse)

\* api/9.9/a/7 with 9.9 undeclared received the unknown-version response
C5_Witness ==
    \E w \in Workers :
        /\ Unmatched(w)
        /\ req[w].Method \in DOMAIN compiledRoutes
        /\ req[w].Path = <<"/", "a", "p", "i", "/", "9", ".", "9", "/", "a", "/", "7">>
        /\ res[w].events = Framed(w, NotImplementedResponse)

\* the list [pre M1, ..., pre Mk] \o h \o [post Mk, ..., post M1]
Nested(h, ms) ==
    [k \in 1..Len(ms) |-> Ev("pre", ms[k].m, ms[k].p)] \o h
        \o [k \in 1..Len(ms) |-> Ev("post", ms[Len(ms) + 1 - k].m, ms[Len(ms) + 1 - k].p)]

\* the request timeout CreateRouteMap resolves
ResolvedTimeout == IF d.RequestTimeout > 0 THEN d.RequestTimeout ELSE 60

\* the middleware list and the handler function that were given to use for
\* a table entry; applies to the entries of RawRoutes and of Routes that are
\* neither bypassed nor disabled
Wrapped(e) ==
    \/ e.Raw # 0
    \/ e.Route # 0 /\ routeSlice[e.Route].ID \notin (PerlIDs \cup DisabledIDs)

Declaration(e) == IF e.Raw # 0 THEN rawRoutes[e.Raw] ELSE routeSlice[e.Route]

ChainOf(e) ==
    getRouteMiddleware(Declaration(e).Middlewares, Declaration(e).Authenticated,
                       Declaration(e).RequiredPrivLevel, ResolvedTimeout)

\* C8: the handler use(h, [M1..Mk]) produces runs the pre-logic of M1..Mk in
\* list order, then h, then the post-logic of Mk..M1; with no middleware it
\* is h.  Stated of every wrapped table entry and of every call that ran one.
C8_MiddlewareOrdering ==
    /\ Registered =>
          \A mk \in Entries :
              Wrapped(Entry(mk)) =>
                  /\ Entry(mk).Handler = Nested(Declaration(Entry(mk)).Handler, ChainOf(Entry(mk)))
                  /\ ChainOf(Entry(mk)) = <<>> =>
                        Entry(mk).Handler = Declaration(Entry(mk)).Handler
    /\ \A w \in Workers :
          (Done(w) /\ res[w].ret = "matched" /\ Wrapped(MRoutes(w)[res[w].matched])) =>
              res[w].events =
                  Framed(w, Nested(Declaration(MRoutes(w)[res[w].matched]).Handler,
                                   ChainOf(MRoutes(w)[res[w].matched])))

\* a call ran hB under [mwX, mwY]: mwX first in, last out
C8_Witness ==
    \E w \in Workers :
        /\ Done(w)
        /\ res[w].events =
              << Ev("logStart", "", reqID[w]), Ev("OnRequest", "", reqID[w]),
                 Ev("pre", "mwX", 0), Ev("pre", "mwY", 0), Ev("run", "hB", 0),
                 Ev("post", "mwY", 0), Ev("post", "mwX", 0),
                 Ev("logEnd", "", reqID[w]) >>

\* the placeholder names of a template, left to right
RECURSIVE PlaceholderNames(_)
PlaceholderNames(s) ==
    LET open == Index(s, "{")
    IN  IF open < 0 THEN <<>>
        ELSE LET rest  == SliceFrom(s, open + 1)
                 close == Index(rest, "}")
             IN  IF close < 0 THEN <<>>
                 ELSE <<Slice(rest, 0, close)>> \o PlaceholderNames(SliceFrom(rest, close + 1))

\* C9 as stated, for templates whose placeholder names are pairwise
\* distinct: the parameter map given to the matched handler binds exactly
\* the template's placeholders, the i-th to the i-th captured segment, which
\* is non-empty and holds no '/'.
C9_ParameterExtraction ==
    \A w \in Workers :
        (Done(w) /\ res[w].ret = "matched") =>
            LET e     == MRoutes(w)[res[w].matched]
                names == PlaceholderNames(e.Path)
                caps  == FindStringSubmatch(e.Regex, Requested(w)).caps
            IN  (\A i, j \in 1..Len(names) : i # j => names[i] # names[j]) =>
                    /\ DOMAIN res[w].params = Range(names)
                    /\ \A i \in 1..Len(names) :
                          /\ i <= Len(caps)
                          /\ res[w].params[names[i]] = caps[i]
                          /\ caps[i] # <<>>
                          /\ \A k \in 1..Len(caps[i]) : caps[i][k] # "/"

\* C6: the values getReqID has returned are 1, 2, ..., N in call order, the
\* counter equals N, and no two calls of Handler in progress hold the same
\* request id.
C6_RequestIDs ==
    /\ issued = [k \in 1..Len(issued) |-> k]
    /\ id = Len(issued)
    /\ \A w1, w2 \in Workers :
          (w1 # w2 /\ pc[w1] \in {"handling", "done"} /\ pc[w2] \in {"handling", "done"})
              => reqID[w1] # reqID[w2]

\* two calls of Handler in progress at once, holding ids 1 and 2
C6_Witness ==
    /\ pc["w1"] = "handling"
    /\ pc["w2"] = "handling"
    /\ issued = <<1, 2>>
    /\ {reqID["w1"], reqID["w2"]} = {1, 2}

\* the middlewares a handler was wrapped in, outermost first, read off the
\* pre-logic calls one invocation of it makes
RECURSIVE PreChain(_)
PreChain(h) ==
    IF h = <<>> THEN <<>>
    ELSE IF h[1].k = "pre" THEN <<Mw(h[1].m, h[1].p)>> \o PreChain(Tail(h))
    ELSE PreChain(Tail(h))

\* access logging, request timeout, standard headers, panic recovery
DefaultChain ==
    << Mw("wrapAccessLog", 0), Mw("timeOutWrapper", ResolvedTimeout),
       Mw("wrapHeaders", 0), Mw("wrapPanicRecover", 0) >>

PluginOutcome(w) ==
    /\ res[w].handled
    /\ res[w].matched = 0
    /\ res[w].events = Framed(w, <<>>)

MatchedOutcome(w) ==
    /\ ~res[w].handled
    /\ res[w].matched \in 1..Len(MRoutes(w))
    /\ res[w].events = Framed(w, MRoutes(w)[res[w].matched].Handler)

UnknownVersionOutcome(w) ==
    /\ ~res[w].handled
    /\ res[w].matched = 0
    /\ res[w].events = Framed(w, NotImplementedResponse)

CatchallOutcome(w) ==
    /\ ~res[w].handled
    /\ res[w].matched = 0
    /\ res[w].events = Framed(w, CatchallResponse)

Outcomes(w) ==
    {o \in {"plugin", "matched", "unknownVersion", "catchall"} :
        CASE o = "plugin"         -> PluginOutcome(w)
          [] o = "matched"        -> MatchedOutcome(w)
          [] o = "unknownVersion" -> UnknownVersionOutcome(w)
          [] OTHER                -> CatchallOutcome(w)}

\* C12: every call of Handler ends in exactly one of the four outcomes:
\* the hook handled it, one matched route handler was invoked, the
\* unknown-version response was produced, or the catch-all was invoked.
C12_ExactlyOneOutcome ==
    \A w \in Workers :
        Done(w) =>
            /\ Cardinality(Outcomes(w)) = 1
            /\ Outcomes(w) =
                  {CASE res[w].ret = "plugin"         -> "plugin"
                     [] res[w].ret = "matched"        -> "matched"
                     [] res[w].ret = "unknownVersion" -> "unknownVersion"
                     [] OTHER                         -> "catchall"}

\* /api/1v2/a/7 was matched by a route (the '.' of ^api/1.2/ matches the
\* 'v') although its version segment is not a number: the matched handler
\* ran and nothing else
C12_Witness ==
    \E w \in Workers :
        /\ Done(w)
        /\ req[w].Path = <<"/", "a", "p", "i", "/", "1", "v", "2", "/", "a", "/", "7">>
        /\ IsRequestAPIAndUnknownVersion(req[w].Path, versions)
        /\ Outcomes(w) = {"matched"}

\* the positions of the calls of one kind among the calls of w's Handler
EventsOf(w, kinds) == {k \in 1..Len(res[w].events) : res[w].events[k].k \in kinds}

\* C13: in every call of Handler the request id is allocated and the start
\* line logged before the plugin hook or any handler runs, and the
\* completion line with the same request id is logged exactly once, after
\* everything else, whichever outcome occurs.
C13_StartEndAccounting ==
    \A w \in Workers :
        Done(w) =>
            LET ev == res[w].events
                n  == Len(ev)
            IN  /\ reqID[w] \in Range(issued)
                /\ n >= 2
                /\ ev[1] = Ev("logStart", "", reqID[w])
                /\ ev[n] = Ev("logEnd", "", reqID[w])
                /\ EventsOf(w, {"logStart"}) = {1}
                /\ EventsOf(w, {"logEnd"}) = {n}
                /\ EventsOf(w, {"OnRequest", "run", "pre", "post"}) = 2..(n - 1)
                /\ res[w].ret \in {"plugin", "noRoutes", "matched", "unknownVersion", "catchall"}

\* the second request, answered with the unknown-version response, was
\* logged at start and at completion with request id 2
C13_Witness ==
    \E w \in Workers :
        /\ Done(w)
        /\ reqID[w] = 2
        /\ res[w].ret = "unknownVersion"
        /\ res[w].events[1] = Ev("logStart", "", 2)
        /\ res[w].events[Len(res[w].events)] = Ev("logEnd", "", 2)

\* a call the plugin hook did not handle, for a method with no entry in the
\* route table
MethodWithoutRoutes(w) ==
    Done(w) /\ ~res[w].handled /\ req[w].Method \notin DOMAIN compiledRoutes

\* C14: a request the plugin hook does not handle whose method has no entry
\* in the route table gets the catch-all and nothing else, whatever its
\* path; no unknown-version response is produced for it.
C14_MethodWithoutRoutes ==
    \A w \in Workers :
        MethodWithoutRoutes(w) =>
            /\ res[w].ret = "noRoutes"
            /\ res[w].events = Framed(w, CatchallResponse)
            /\ res[w].tried = 0
            /\ res[w].matched = 0
            /\ \A k \in 1..Len(res[w].events) :
                  res[w].events[k].m # "NotImplementedHandler"

\* POST /api/9.9/a/7 against a table with GET routes only: an API path of
\* unknown version that received the catch-all
C14_Witness ==
    \E w \in Workers :
        /\ MethodWithoutRoutes(w)
        /\ DOMAIN compiledRoutes = {"GET"}
        /\ req[w].Method = "POST"
        /\ req[w].Path = <<"/", "a", "p", "i", "/", "9", ".", "9", "/", "a", "/", "7">>
        /\ IsRequestAPIAndUnknownVersion(req[w].Path, versions)
        /\ res[w].events = Framed(w, CatchallResponse)

\* the versions Route declaration i applies to: the declared versions from
\* its own up to, not including, the next major version
ApplicableVersions(i) ==
    {v \in DeclaredVersions :
        routeSlice[i].Version <= v /\ v \div 10 = routeSlice[i].Version \div 10}

\* the (declaration, version) pairs that have an entry under a method
VersionedKeys(method) ==
    {iv \in (1..Len(routeSlice)) \X DeclaredVersions :
        routeSlice[iv[1]].Method = method /\ iv[2] \in ApplicableVersions(iv[1])}

RawKeys(method) == {j \in 1..Len(rawRoutes) : rawRoutes[j].Method = method}

\* the table CreateRouteMap returns for the declarations, before CompileRoutes
BuiltMap ==
    CreateRouteMap(routeSlice, rawRoutes, d.PerlRoutes, d.DisabledRoutes,
                   handlerToFunc(catchall), d.RequestTimeout).m

\* C15: under each method the entries are those of the Routes in declaration
\* order, each Route's applicable versions ascending in one block, then those
\* of the RawRoutes in declaration order; CompileRoutes keeps the entries of
\* CreateRouteMap one for one and in place.
C15_RegistrationOrder ==
    Registered =>
        /\ DOMAIN compiledRoutes = DOMAIN BuiltMap
        /\ DOMAIN compiledRoutes =
              {m \in Methods : VersionedKeys(m) # {} \/ RawKeys(m) # {}}
        /\ \A method \in DOMAIN compiledRoutes :
              LET es == compiledRoutes[method]
                  n  == Len(es)
                  nv == Cardinality(VersionedKeys(method))
              IN  /\ n = nv + Cardinality(RawKeys(method))
                  /\ n = Len(BuiltMap[method])
                  /\ \A k \in 1..n :
                        /\ es[k].Path = BuiltMap[method][k].Path
                        /\ es[k].Handler = BuiltMap[method][k].Handler
                        /\ k <= nv => /\ es[k].Raw = 0
                                      /\ <<es[k].Route, es[k].Version>> \in VersionedKeys(method)
                                      /\ es[k].Path = routePath(routeSlice[es[k].Route], es[k].Version)
                        /\ k > nv  => /\ es[k].Route = 0
                                      /\ es[k].Raw \in RawKeys(method)
                                      /\ es[k].Path = rawRoutes[es[k].Raw].Path
                  /\ \A k, l \in 1..n :
                        (k < l /\ l <= nv) =>
                            \/ es[k].Route < es[l].Route
                            \/ es[k].Route = es[l].Route /\ es[k].Version < es[l].Version
                  /\ \A k, l \in 1..n :
                        (nv < k /\ k < l) => es[k].Raw < es[l].Raw

\* GET holds a 1.2 Route at 1.2 and 1.3, then a 1.3 Route, then a RawRoute
C15_Witness ==
    /\ Registered
    /\ "GET" \in DOMAIN compiledRoutes
    /\ Len(compiledRoutes["GET"]) = 4
    /\ [k \in 1..4 |-> <<compiledRoutes["GET"][k].Route, compiledRoutes["GET"][k].Version,
                          compiledRoutes["GET"][k].Raw>>]
          = << <<1, 12, 0>>, <<1, 13, 0>>, <<2, 13, 0>>, <<0, 0, 1>> >>

\* the path s is the template t with every {name} replaced by one non-empty
\* segment without '/', every other character of t standing for itself
RECURSIVE Instance(_, _)
Instance(t, s) ==
    IF t = <<>> THEN s = <<>>
    ELSE IF t[1] = "{" /\ Index(t, "}") > 0
      THEN LET rest == SliceFrom(t, Index(t, "}") + 1)
           IN  \E n \in 1..SegRun(s, 1) : Instance(rest, SubSeq(s, n + 1, Len(s)))
    ELSE /\ s # <<>>
         /\ s[1] = t[1]
         /\ Instance(Tail(t), Tail(s))

\* the template an entry was compiled from, as it reads in a request path:
\* api/<version>/<template> for a Route, the template itself for a RawRoute
TemplateOf(e) == IF e.Raw # 0 THEN e.Path ELSE Tail(e.Path)

\* C16: an entry's pattern matches a request path only when the path is the
\* entry's template with each placeholder replaced by one non-empty segment;
\* a template without placeholders matches only the identical path.  Stated
\* of the entry every matched call was dispatched to.
C16_LiteralMatching ==
    \A w \in Workers :
        (Done(w) /\ res[w].ret = "matched") =>
            Instance(TemplateOf(MRoutes(w)[res[w].matched]), Requested(w))

\* the template has an opening brace with no closing brace after it
Malformed(t) ==
    \E i \in 1..Len(t) : t[i] = "{" /\ \A j \in (i + 1)..Len(t) : t[j] # "}"

\* the templates of the declarations
DeclaredTemplates ==
    {routeSlice[i].Path : i \in 1..Len(routeSlice)}
        \cup {rawRoutes[j].Path : j \in 1..Len(rawRoutes)}

\* C17: once RegisterRoutes has run, a malformed template among the
\* declarations (wherever its brace stands) means CompileRoutes panicked and
\* there is no table; otherwise the table is served and every entry has one
\* parameter name per placeholder of its template.
C17_MalformedIsFatal ==
    (phase # "startup" /\ issued = <<>>) =>
        IF \E t \in DeclaredTemplates : Malformed(t)
          THEN phase = "panicked" /\ compiledRoutes = EmptyMap
          ELSE /\ phase = "serving"
               /\ \A mk \in Entries :
                     Entry(mk).Params = PlaceholderNames(Entry(mk).Path)

\* C18: the version set is exactly the set of Version values of the declared
\* Routes, those of bypassed and disabled Routes included; RawRoutes add
\* nothing, and without Routes it is empty.
C18_VersionSet ==
    Registered =>
        /\ \A i \in 1..Len(routeSlice) : routeSlice[i].Version \in versions
        /\ \A v \in versions : \E i \in 1..Len(routeSlice) : routeSlice[i].Version = v
        /\ routeSlice = <<>> => versions = {}
        /\ versions = CreateRouteMap(routeSlice, <<>>, <<>>, <<>>,
                                     handlerToFunc(catchall), d.RequestTimeout).versionSet

\* a bypassed 2.0 Route and a disabled 1.2 Route beside a RawRoute: the
\* version set is {1.2, 2.0}
C18_Witness ==
    /\ Registered
    /\ rawRoutes # <<>>
    /\ Len(routeSlice) = 2
    /\ routeSlice[1].ID \in DisabledIDs \ PerlIDs
    /\ routeSlice[2].ID \in PerlIDs
    /\ versions = {12, 20}

\* C19: while serving, no step of any request, under any interleaving,
\* changes the compiled route table, the version set or the declarations
\* they were built from; of the shared state only the request-id counter
\* (and the record of the ids it issued) changes.
C19_TablesUnchanged ==
    [][phase = "serving" =>
          /\ compiledRoutes' = compiledRoutes
          /\ versions' = versions
          /\ phase' = "serving"
          /\ <<routeSlice, rawRoutes, d>>' = <<routeSlice, rawRoutes, d>>]_vars

\* two requests served concurrently with different outcomes, one matched
\* and one answered with the unknown-version response, and the table and
\* version set are what RegisterRoutes built
C19_Witness ==
    /\ Serving
    /\ pc["w1"] = "done"
    /\ pc["w2"] = "done"
    /\ res["w1"].ret = "matched"
    /\ res["w2"].ret = "unknownVersion"
    /\ id = 2
    /\ compiledRoutes = CompileRoutes(BuiltMap)
    /\ versions = DeclaredVersions

\* in every call the plugin hook is invoked exactly once, right after the
\* start line and before any handler, with an empty parameter map and the
\* call's request id; path parameters are attached only to the request of a
\* matched handler
HookSeesNoParams(w) ==
    /\ EventsOf(w, {"OnRequest"}) = {2}
    /\ res[w].events[2] = Ev("OnRequest", "", reqID[w])
    /\ \A k \in EventsOf(w, {"run", "pre", "post"}) : k > 2
    /\ res[w].pluginParams = EmptyMap
    /\ res[w].ctxReqID = reqID[w]
    /\ reqID[w] \in Range(issued)
    /\ res[w].handled => res[w].tried = 0
    /\ res[w].ret # "matched" => res[w].params = EmptyMap
    /\ res[w].ret = "matched" =>
          DOMAIN res[w].params = Range(MRoutes(w)[res[w].matched].Params)

\* the hook part of C20 alone
HookContract == \A w \in Workers : Done(w) => HookSeesNoParams(w)

\* C20: in every call of Handler the plugin hook is invoked exactly once,
\* after the request id is allocated and before any route matching, with an
\* empty parameter map and with the request id that is in the context given
\* to the handler that runs afterwards, whichever handler that is; path
\* parameters are attached only to the request of the matched handler.
C20_PluginSeesNoParams ==
    \A w \in Workers :
        Done(w) =>
            /\ HookSeesNoParams(w)
            /\ res[w].ret # "plugin" => res[w].handlerReqID = reqID[w]
=============================================================================
